---------------------------- MODULE Spec2Model ----------------------------
(***************************************************************************)
(* The connection/protocol layer of the card game TCP server.              *)
(*                                                                         *)
(*   Spec        the dispatcher of src/src/tcp/protocol.rs together with   *)
(*               the identity resolution of src/src/game/player.rs         *)
(*   SpecServer  the accept loop and connection task of                    *)
(*               src/src/tcp/server.rs                                     *)
(*                                                                         *)
(* A step of a task runs its code from one await to the next; an await on  *)
(* a lock that no task holds across an await of its own is taken together  *)
(* with the code that follows it.                                          *)
(***************************************************************************)
EXTENDS Integers, Sequences, FiniteSets, TLC

(* ------------------------------ bounds -------------------------------- *)
MaxQueue == 2      \* state updates made for disconnected clients
MaxFaults == 1     \* requests and service answers that make a handler fail

(* ------------------------- program constants -------------------------- *)
RetryLimit == 3    \* protocol.rs:95  while tries < 3

Conns == 1..2      \* the accepted sockets, in the order they were accepted
PlayerIds == {"p1", "p2"}
NoClient == 0
NoTask == <<"none", 0>>
Tasks == {"h", "k"} \X Conns      \* h: the task serving the temporary
                                  \* connection, k: the client's read task

(* ------------------------------ packets ------------------------------- *)
HeaderType ==
    {"Connect", "Reconnect", "Disconnect", "PlayCard", "GameStateUpdate",
     "InvalidChecksum", "InvalidHeader", "InvalidPacketPayload"}
InHeaders == {"Connect", "Reconnect", "Disconnect", "PlayCard", "GameStateUpdate"}
Payloads == {"empty", "play_card_request", "junk"}

\* utils/checksum.rs is not part of the sources: a pure function of the payload
Checksum(payload) ==
    CASE payload = "empty" -> 0
      [] payload = "play_card_request" -> 1
      [] OTHER -> 2
ChecksumCheck(claimed, payload) == claimed = Checksum(payload)
Checksums == {Checksum(p) : p \in Payloads}

\* what a socket read can return: bytes that frame a packet, or bytes that do not
Buffers ==
    [framed : {TRUE}, header_type : InHeaders, checksum : Checksums, payload : Payloads]
    \cup [framed : {FALSE}, header_type : {"Connect"}, checksum : {0}, payload : {"junk"}]
\* Packet::parse: Err for bytes that frame no packet
PacketParse(buffer) ==
    IF buffer.framed THEN [ok |-> TRUE, packet |-> buffer] ELSE [ok |-> FALSE, packet |-> buffer]
\* serde_cbor::from_slice::<PlayCardRequest>
PlayCardRequestParses(payload) == payload = "play_card_request"

\* Packet::new(header_type, payload); seq tells the state updates of a queue apart
Packet(header_type, seq) == [header_type |-> header_type, seq |-> seq]
NoPacket == Packet("none", 0)

VARIABLES
    players,        \* server_instance.players: player id -> client
    players_lock,   \* the RwLock around it: [w: task, r: set of tasks]
    client,         \* the Client records, by the connection that created them
    guards,         \* the per-field RwLocks of each Client that are held across an await
    replay,         \* per reconnecting socket, what its peer received while
                    \* send_missed_packets ran: the packets of the queue, in
                    \* order, and whether a packet of another sender came between
    pc,             \* per task, where it stands
    fr,             \* per task, its send_packet / disconnect frame
    conn,           \* per temporary connection: request, service answers, result
    snapshot,       \* per reconnecting socket, the queue send_missed_packets found
    server_closed,  \* close_server was called
    env,            \* what the environment has done so far: [faults, updates]
    sv              \* the state of server.rs (SpecServer)

vars == <<players, players_lock, client, guards, replay, pc, fr, conn, snapshot,
          server_closed, env, sv>>

NoFrame == [client |-> NoClient, pkt |-> NoPacket, tries |-> 0, writes |-> 0,
            res |-> "none", path |-> "none"]

NoRecord == [exists |-> FALSE, connected |-> FALSE, write_stream |-> 0,
             missed_packets |-> <<>>, player |-> "none"]

NoReplay == [got |-> <<>>, foreign |-> FALSE]

NoGuards == [addr |-> {}, write_stream |-> NoTask, missed_packets |-> NoTask,
             player |-> {}]



(* --------------------- the external HTTP services --------------------- *)
\* what reqwest's send() gives: Ok(response) with a status and a body, or
\* Err(e) with e.status() (0: none)
NoResponse == [transport |-> "none", status |-> 0, body |-> "none"]
ProfileResponses ==
    [transport : {"ok"}, status : {200, 401, 500}, body : PlayerIds \cup {"junk"}]
    \cup [transport : {"err"}, status : {0, 401}, body : {"none"}]
DeckResponses ==
    [transport : {"ok"}, status : {200}, body : {"deck", "junk"}]
    \cup [transport : {"ok"}, status : {404, 500}, body : {"junk"}]
    \cup [transport : {"err"}, status : {0, 401}, body : {"none"}]

\* e.status().unwrap_or(StatusCode::INTERNAL_SERVER_ERROR)
StatusOrDefault(status) == IF status = 0 THEN 500 ELSE status

\* Player::get_player_profile: "Ok" (the profile is the body) or the error
get_player_profile_unchecked(resp) ==
    IF resp.transport = "ok"
    THEN IF resp.body \in PlayerIds THEN "Ok" ELSE "InvalidPlayerPayload"
    ELSE "UnexpectedPlayerError"
get_player_profile(resp) ==
    IF resp.transport = "ok"
    THEN IF resp.status = 401 THEN "UnauthorizedPlayerError"
         ELSE IF resp.body \in PlayerIds THEN "Ok" ELSE "InvalidPlayerPayload"
    ELSE IF StatusOrDefault(resp.status) = 401 THEN "UnauthorizedPlayerError"
         ELSE "UnexpectedPlayerError"

\* Player::get_player_deck
get_player_deck(resp) ==
    IF resp.transport = "ok"
    THEN CASE resp.status = 200 ->
                 IF resp.body = "deck" THEN "Ok" ELSE "InvalidDeckFormat"
           [] resp.status = 404 -> "DeckNotFound"
           [] OTHER -> "UnexpectedDeckError"
    ELSE IF StatusOrDefault(resp.status) = 401 THEN "UnauthorizedDeckError"
         ELSE "UnexpectedDeckError"

\* Player::reconnection, once the profile service has answered
reconnection_unchecked(player_id, resp) == get_player_profile(resp)
reconnection(player_id, resp) ==
    IF get_player_profile(resp) # "Ok" THEN get_player_profile(resp)
    ELSE IF resp.body # player_id THEN "PlayerDoesNotMatch"
    ELSE "Ok"

\* the payload of a Connect / Reconnect packet: a request naming a player, or
\* bytes serde_cbor cannot read as one
RequestPayloads == PlayerIds \cup {"junk"}
RequestParsesAll(payload) == TRUE
RequestParses(payload) == payload \in PlayerIds

\* lost: while this handle_connect, its client made, waits to place it,
\* another one has placed its client under the same player id
NoConn == [kind |-> "none", player_id |-> "none", profile |-> NoResponse,
           deck |-> NoResponse, res |-> "none", target |-> NoClient,
           lost |-> FALSE]

(* -------------------------- the environment --------------------------- *)
\* a 200 with the body asked for
RegularAnswer(resp) == resp.transport = "ok" /\ resp.status = 200 /\ resp.body # "junk"
\* the environment spends one of its faults, if this input is one
Fault(faulty) ==
    IF faulty
    THEN env.faults < MaxFaults /\ env' = [env EXCEPT !.faults = @ + 1]
    ELSE env' = env

(* ----------------------------- the locks ------------------------------ *)
Writer(t) == [w |-> t, r |-> {}]
Free == [w |-> NoTask, r |-> {}]
CanRead(lock) == lock.w = NoTask
CanWrite(lock) == lock.w = NoTask /\ lock.r = {}

(* ---------------------------- send_packet ----------------------------- *)
\* the loop condition of send_packet
RetriesOnceMore(tries) == tries <= RetryLimit
Retries(tries) == tries < RetryLimit

\* send_or_disconnect / send_and_disconnect: whether disconnect follows a
\* send_packet that returned res
DisconnectsAlways(path, res) == path \in {"send_and_disconnect", "send_or_disconnect"}
DisconnectsAfter(path, res) ==
    \/ path = "send_and_disconnect"
    \/ path = "send_or_disconnect" /\ res = "Err"

\* where a task goes on when its send (and disconnect) has returned: the read
\* loop of a client task, the drain loop of send_missed_packets
Returned(t) == IF t[1] = "k" THEN "ret" ELSE "smp_loop"

AfterSend(t, path, res) ==
    IF DisconnectsAfter(path, res) THEN "disconnect" ELSE Returned(t)

\* the call of send_packet through one of its three callers' paths
Call(cl, packet, path) ==
    [client |-> cl, pkt |-> packet, tries |-> 0, writes |-> 0, res |-> "none",
     path |-> path]

\* the socket takes a packet written by task t: it is noted while the
\* send_missed_packets that feeds this socket has not yet written its last
Replaying(socket) ==
    /\ pc[<<"h", socket>>] \in {"smp_loop", "send_packet", "disconnect"}
    /\ Len(replay[socket].got) < Len(snapshot[socket])
Received(socket, t, packet) ==
    IF ~Replaying(socket) THEN replay
    ELSE IF t = <<"h", socket>>
    THEN [replay EXCEPT ![socket].got = Append(@, packet)]
    ELSE [replay EXCEPT ![socket].foreign = TRUE]

\* send_packet has returned res: its locals are gone
Result(frame, res) == [frame EXCEPT !.tries = 0, !.writes = 0, !.res = res]

\* one turn of the loop: client.addr.read().await and
\* client.write_stream.write().await, then write_all. Ok returns Ok(()); Err
\* sleeps 500 ms, counts the try and goes round again, or leaves the loop with
\* the error. The two guards are dropped at the end of the turn; the task that
\* holds them asks for no other lock, so the turn is one step.
send_packet_write(t, ok) ==
    LET cl == fr[t].client
        socket == client[cl].write_stream
        tries == fr[t].tries + 1
    IN
    /\ pc[t] = "send_packet"
    /\ guards[cl].write_stream = NoTask
    /\ IF ok
       THEN /\ replay' = Received(socket, t, fr[t].pkt)
            /\ fr' = [fr EXCEPT ![t] = Result(fr[t], "Ok")]
            /\ pc' = [pc EXCEPT ![t] = AfterSend(t, fr[t].path, "Ok")]
       ELSE IF Retries(tries)
       THEN /\ replay' = replay
            /\ fr' = [fr EXCEPT ![t].writes = @ + 1, ![t].tries = tries]
            /\ pc' = pc
       ELSE /\ replay' = replay
            /\ fr' = [fr EXCEPT ![t] = Result(fr[t], "Err")]
            /\ pc' = [pc EXCEPT ![t] = AfterSend(t, fr[t].path, "Err")]
    /\ UNCHANGED <<players, players_lock, client, guards, conn, snapshot,
                   server_closed, env, sv>>

(* ----------------------------- disconnect ----------------------------- *)
\* client.addr.read().await; client.connected.write().await;
\* *connected_guard = false. Neither lock is held across an await by any task.
disconnect_skipped(t) ==
    /\ pc[t] = "disconnect"
    /\ pc' = [pc EXCEPT ![t] = Returned(t)]
    /\ UNCHANGED <<players, players_lock, client, guards, replay, fr, conn, snapshot,
                   server_closed, env, sv>>
disconnect(t) ==
    /\ pc[t] = "disconnect"
    /\ client' = [client EXCEPT ![fr[t].client].connected = FALSE]
    /\ pc' = [pc EXCEPT ![t] = Returned(t)]
    /\ UNCHANGED <<players, players_lock, guards, replay, fr, conn, snapshot,
                   server_closed, env, sv>>

(* ------------------- handle_incoming, handle_packet -------------------- *)
Answer(path, header_type) == [path |-> path, header_type |-> header_type]

\* handle_incoming, checksum mismatch: send_or_disconnect(InvalidChecksum)
invalid_checksum == Answer("send_or_disconnect", "InvalidChecksum")
\* handle_disconnect: send_and_disconnect(Disconnect)
handle_disconnect_or == Answer("send_or_disconnect", "Disconnect")
handle_disconnect == Answer("send_and_disconnect", "Disconnect")
\* handle_packet, PlayCard whose payload is no PlayCardRequest:
\* let _ = send_packet(InvalidPacketPayload)
invalid_play_card_or == Answer("send_or_disconnect", "InvalidPacketPayload")
invalid_play_card == Answer("send_packet", "InvalidPacketPayload")
\* handle_packet, any other header: send_or_disconnect(InvalidHeader)
invalid_header_and == Answer("send_and_disconnect", "InvalidHeader")
invalid_header == Answer("send_or_disconnect", "InvalidHeader")
\* handle_play_card is todo!(): the task panics
handle_play_card == Answer("panic", "none")

handle_packet_silent(packet) ==
    CASE packet.header_type = "Disconnect" -> handle_disconnect
      [] packet.header_type = "PlayCard" ->
             IF PlayCardRequestParses(packet.payload)
             THEN handle_play_card
             ELSE invalid_play_card
      [] packet.header_type \in {"Connect", "Reconnect"} -> Answer("decode_error", "none")
      [] OTHER -> invalid_header
handle_packet(packet) ==
    CASE packet.header_type = "Disconnect" -> handle_disconnect
      [] packet.header_type = "PlayCard" ->
             IF PlayCardRequestParses(packet.payload)
             THEN handle_play_card
             ELSE invalid_play_card
      [] OTHER -> invalid_header

\* what handle_incoming does with the bytes read, up to its first await
handle_incoming_unchecked(buffer) ==
    LET parsed == PacketParse(buffer) IN
    IF ~parsed.ok THEN Answer("decode_error", "none")
    ELSE handle_packet(parsed.packet)
handle_incoming(buffer) ==
    LET parsed == PacketParse(buffer) IN
    IF ~parsed.ok THEN Answer("decode_error", "none")
    ELSE IF ~ChecksumCheck(parsed.packet.checksum, parsed.packet.payload)
         THEN invalid_checksum
         ELSE handle_packet(parsed.packet)

\* Client::connect (client.rs is not part of the sources): the read loop of an
\* authenticated client hands each buffer read to handle_incoming, for as long
\* as the client is connected
ClientRead(c, buffer) ==
    LET t == <<"k", c>>
        answer == handle_incoming(buffer)
    IN
    /\ pc[t] = "read"
    /\ client[c].connected
    /\ fr' = [fr EXCEPT ![t] =
                 Call(c, Packet(answer.header_type, 0), answer.path)]
    /\ pc' = [pc EXCEPT ![t] =
                 CASE answer.path = "decode_error" -> "ret"
                   [] answer.path = "panic" -> "panicked"
                   [] OTHER -> "send_packet"]
    /\ UNCHANGED <<players, players_lock, client, guards, replay, conn, snapshot,
                   server_closed, env, sv>>

\* handle_incoming has returned: the loop reads again
ClientLoop(c) ==
    LET t == <<"k", c>> IN
    /\ pc[t] = "ret"
    /\ pc' = [pc EXCEPT ![t] = "read"]
    /\ fr' = [fr EXCEPT ![t] = NoFrame]
    /\ UNCHANGED <<players, players_lock, client, guards, replay, conn, snapshot,
                   server_closed, env, sv>>


(* --------------------------- handle_connect ---------------------------- *)
H(c) == <<"h", c>>
Done(c, res) == [conn EXCEPT ![c].res = res]
\* ServerInstance::run accepts one socket after the other: the connections
\* are numbered in the order of their first packet
Accepted(c) == \A d \in Conns : d < c => pc[H(d)] # "temp"

\* Client::new(read, write, addr, player, protocol) (client.rs is not part of
\* the sources): a connected client with an empty queue, writing to the socket
\* it was made from
ClientNew(c, player_id) ==
    [exists |-> TRUE, connected |-> TRUE, write_stream |-> c,
     missed_packets |-> <<>>, player |-> player_id]

\* Player::new_connection, the request: Err(InvalidPlayerPayload) with no
\* service called, or the call of the profile service
handle_connect_request(c, payload) ==
    /\ pc[H(c)] = "temp"
    /\ Accepted(c)
    /\ IF RequestParses(payload)
       THEN /\ conn' = [conn EXCEPT ![c].kind = "connect", ![c].player_id = payload]
            /\ pc' = [pc EXCEPT ![H(c)] = "connect_profile"]
       ELSE /\ conn' = [conn EXCEPT ![c].kind = "connect",
                                    ![c].res = "InvalidPlayerPayload"]
            /\ pc' = [pc EXCEPT ![H(c)] = "done"]
    /\ Fault(~RequestParses(payload))
    /\ UNCHANGED <<players, players_lock, client, guards, replay, fr, snapshot,
                   server_closed, sv>>

\* Player::new_connection: get_player_profile(..).await?, then the call of the
\* deck service
handle_connect_profile(c, resp) ==
    /\ pc[H(c)] = "connect_profile"
    /\ IF get_player_profile(resp) = "Ok"
       THEN /\ conn' = [conn EXCEPT ![c].profile = resp]
            /\ pc' = [pc EXCEPT ![H(c)] = "connect_deck"]
       ELSE /\ conn' = [conn EXCEPT ![c].profile = resp,
                                    ![c].res = get_player_profile(resp)]
            /\ pc' = [pc EXCEPT ![H(c)] = "done"]
    /\ Fault(~RegularAnswer(resp))
    /\ UNCHANGED <<players, players_lock, client, guards, replay, fr, snapshot,
                   server_closed, sv>>

\* the id of the Player that new_connection builds: request.player_id
NewPlayerId(c) == conn[c].player_id

\* match Arc::try_unwrap(temp_client): Ok(temp) for the sole holder of the
\* handle, Err(_) while another holder has it
try_unwrap_forced(sole) == "Ok"
try_unwrap(sole) == IF sole THEN "Ok" ELSE "Err"

\* Player::new_connection: get_player_deck(..).await?; then, in handle_connect,
\* Arc::try_unwrap(temp_client) (Err when another holder has it) and Client::new
handle_connect_deck(c, resp, sole) ==
    /\ pc[H(c)] = "connect_deck"
    /\ IF get_player_deck(resp) # "Ok"
       THEN /\ conn' = [conn EXCEPT ![c].deck = resp, ![c].res = get_player_deck(resp)]
            /\ pc' = [pc EXCEPT ![H(c)] = "done"]
            /\ client' = client
       ELSE IF try_unwrap(sole) = "Err"
       THEN /\ conn' = [conn EXCEPT ![c].deck = resp, ![c].res = "InternalError"]
            /\ pc' = [pc EXCEPT ![H(c)] = "done"]
            /\ client' = client
       ELSE /\ conn' = [conn EXCEPT ![c].deck = resp]
            /\ pc' = [pc EXCEPT ![H(c)] = "connect_insert"]
            /\ client' = [client EXCEPT ![c] = ClientNew(c, NewPlayerId(c))]
    /\ Fault(get_player_deck(resp) # "Ok" \/ ~sole)
    /\ UNCHANGED <<players, players_lock, guards, replay, fr, snapshot,
                   server_closed, sv>>

\* players.write().await; players_guard.insert(player_id, client);
\* tokio::spawn(client.connect()); client.player.read().await
handle_connect_insert(c) ==
    /\ pc[H(c)] = "connect_insert"
    /\ CanWrite(players_lock)
    /\ players_lock' = Writer(H(c))
    /\ players' = [players EXCEPT ![client[c].player] = c]
    /\ guards' = [guards EXCEPT ![c].player = @ \cup {H(c)}]
    /\ pc' = [pc EXCEPT ![H(c)] = "connect_fetch", ![<<"k", c>>] = "read"]
    /\ conn' = [d \in Conns |->
                   [conn[d] EXCEPT !.lost =
                        /\ d # c
                        /\ pc[H(d)] = "connect_insert"
                        /\ (conn[d].lost \/ client[d].player = client[c].player)]]
    /\ UNCHANGED <<client, replay, fr, snapshot, server_closed, env, sv>>

\* players_guard, taken by players.write().await, lives to the end of the
\* Ok(temp) arm: the return drops it
players_guard_kept(lock) == lock
players_guard_dropped(lock) == Free

\* if let Err(deck_error) = fetch_cards_details(..) { close_server(..) }
closes_server_always(ok) == TRUE
closes_server(ok) == ~ok

\* game_instance.fetch_cards_details(player_deck).await; on Err close_server;
\* Ok(()), which drops both guards
handle_connect_fetch(c, ok) ==
    /\ pc[H(c)] = "connect_fetch"
    /\ server_closed' = (server_closed \/ closes_server(ok))
    /\ players_lock' = players_guard_dropped(players_lock)
    /\ guards' = [guards EXCEPT ![c].player = @ \ {H(c)}]
    /\ conn' = Done(c, "Ok")
    /\ pc' = [pc EXCEPT ![H(c)] = "done"]
    /\ Fault(~ok)
    /\ UNCHANGED <<players, client, replay, fr, snapshot, sv>>

(* -------------------------- handle_reconnect --------------------------- *)
\* Player::reconnection, the request
handle_reconnect_request(c, payload) ==
    /\ pc[H(c)] = "temp"
    /\ Accepted(c)
    /\ IF RequestParses(payload)
       THEN /\ conn' = [conn EXCEPT ![c].kind = "reconnect", ![c].player_id = payload]
            /\ pc' = [pc EXCEPT ![H(c)] = "reconnect_profile"]
       ELSE /\ conn' = [conn EXCEPT ![c].kind = "reconnect",
                                    ![c].res = "InvalidPlayerPayload"]
            /\ pc' = [pc EXCEPT ![H(c)] = "done"]
    /\ Fault(~RequestParses(payload))
    /\ UNCHANGED <<players, players_lock, client, guards, replay, fr, snapshot,
                   server_closed, sv>>

\* Player::reconnection(..).await?: the profile service has answered
handle_reconnect_profile(c, resp) ==
    LET res == reconnection(conn[c].player_id, resp) IN
    /\ pc[H(c)] = "reconnect_profile"
    /\ IF res = "Ok"
       THEN /\ conn' = [conn EXCEPT ![c].profile = resp]
            /\ pc' = [pc EXCEPT ![H(c)] = "reconnect_players"]
       ELSE /\ conn' = [conn EXCEPT ![c].profile = resp, ![c].res = res]
            /\ pc' = [pc EXCEPT ![H(c)] = "done"]
    /\ Fault(~RegularAnswer(resp))
    /\ UNCHANGED <<players, players_lock, client, guards, replay, fr, snapshot,
                   server_closed, sv>>

\* handle_reconnect once the registry is read: no entry is PlayerNotConnected;
\* an entry and Arc::try_unwrap(temp_client) Err is InternalError; else the
\* client is reconnected
reconnect_outcome_unwrap_first(found, sole) ==
    IF ~sole THEN "InternalError"
    ELSE IF found = NoClient THEN "PlayerNotConnected"
    ELSE "Ok"
reconnect_outcome(found, sole) ==
    IF found = NoClient THEN "PlayerNotConnected"
    ELSE IF ~sole THEN "InternalError"
    ELSE "Ok"

\* players.read().await; players_map.get(&id); Arc::try_unwrap(temp_client);
\* client.player.read().await for the log line
handle_reconnect_lookup(c, sole) ==
    LET found == players[conn[c].profile.body]
        outcome == reconnect_outcome(found, sole)
    IN
    /\ pc[H(c)] = "reconnect_players"
    /\ CanRead(players_lock)
    /\ IF outcome # "Ok"
       THEN /\ conn' = Done(c, outcome)
            /\ pc' = [pc EXCEPT ![H(c)] = "done"]
            /\ players_lock' = players_lock
       ELSE /\ conn' = [conn EXCEPT ![c].target = found]
            /\ pc' = [pc EXCEPT ![H(c)] = "reconnect"]
            /\ players_lock' = [players_lock EXCEPT !.r = @ \cup {H(c)}]
    /\ Fault(~sole)
    /\ UNCHANGED <<players, client, guards, replay, fr, snapshot, server_closed, sv>>

\* Client::reconnect(temp) (client.rs is not part of the sources): the halves
\* of the new socket replace the stored ones, connected flips to true, and the
\* missed packets are flushed
ClientReconnect(c) ==
    LET cl == conn[c].target IN
    /\ pc[H(c)] = "reconnect"
    /\ guards[cl].write_stream = NoTask
    /\ client' = [client EXCEPT ![cl].write_stream = c, ![cl].connected = TRUE]
    /\ pc' = [pc EXCEPT ![H(c)] = "smp_lock"]
    /\ UNCHANGED <<players, players_lock, guards, replay, fr, conn, snapshot,
                   server_closed, env, sv>>

(* ------------------------ send_missed_packets -------------------------- *)
\* how send_missed_packets sends each packet it pops
missed_packet_path == "send_or_disconnect"

\* let mut packets_lock = client.missed_packets.write().await
send_missed_packets_lock(c) ==
    LET cl == conn[c].target IN
    /\ pc[H(c)] = "smp_lock"
    /\ guards[cl].missed_packets = NoTask
    /\ guards' = [guards EXCEPT ![cl].missed_packets = H(c)]
    /\ snapshot' = [snapshot EXCEPT ![c] = client[cl].missed_packets]
    /\ pc' = [pc EXCEPT ![H(c)] = "smp_loop"]
    /\ UNCHANGED <<players, players_lock, client, replay, fr, conn, server_closed, env, sv>>

\* the loop: pop_front and send_or_disconnect; on an empty queue break,
\* client.addr.read().await for the log line, and return: Client::reconnect
\* and handle_reconnect return Ok(()) with it, and every guard is dropped
send_missed_packets_pop(c) ==
    LET cl == conn[c].target
        queue == client[cl].missed_packets
    IN
    /\ pc[H(c)] = "smp_loop"
    /\ IF queue # <<>>
       THEN /\ client' = [client EXCEPT ![cl].missed_packets = Tail(queue)]
            /\ fr' = [fr EXCEPT ![H(c)] = Call(cl, Head(queue), missed_packet_path)]
            /\ pc' = [pc EXCEPT ![H(c)] = "send_packet"]
            /\ UNCHANGED <<guards, players_lock, conn>>
       ELSE /\ client' = client
            /\ fr' = [fr EXCEPT ![H(c)] = NoFrame]
            /\ pc' = [pc EXCEPT ![H(c)] = "done"]
            /\ guards' = [guards EXCEPT ![cl].missed_packets = NoTask]
            /\ players_lock' = [players_lock EXCEPT !.r = @ \ {H(c)}]
            /\ conn' = Done(c, "Ok")
    /\ UNCHANGED <<players, replay, snapshot, server_closed, env, sv>>

\* the producer of state updates (not part of the sources): a packet made for
\* a client that is marked disconnected goes to its missed-packet queue
EnqueueMissed(cl) ==
    /\ client[cl].exists
    /\ ~client[cl].connected
    /\ guards[cl].missed_packets = NoTask
    /\ env.updates < MaxQueue
    /\ client' = [client EXCEPT
                     ![cl].missed_packets =
                         Append(@, Packet("GameStateUpdate", env.updates + 1))]
    /\ env' = [env EXCEPT !.updates = @ + 1]
    /\ UNCHANGED <<players, players_lock, guards, replay, pc, fr, conn, snapshot,
                   server_closed, sv>>

(* ------------------------- server.rs: the server ----------------------- *)
\* what c_stream.read gives handle_client: end of stream (Ok(0) or Err), bytes
\* whose first five do not make a header, a Connect whose payload
\* forge_connection takes (it names a player) or refuses, another header
ServerBuffers ==
    [kind : {"eof", "undecodable", "other"}, player : {"none"}]
    \cup [kind : {"connect"}, player : PlayerIds \cup {"none"}]
NoBuffer == [kind |-> "none", player |-> "none"]

NoServer ==
    [player_state |-> [p \in PlayerIds |-> NoClient],
     pc |-> [c \in Conns |-> "none"],
     buffer |-> [c \in Conns |-> NoBuffer],
     player_id |-> [c \in Conns |-> "none"],
     response |-> [c \in Conns |-> "none"]]

ServerUnchanged ==
    UNCHANGED <<players, players_lock, client, guards, replay, pc, fr, conn,
                snapshot, server_closed, env>>

\* ServerInstance::run: accept, then tokio::spawn(handle_client)
run(c) ==
    /\ sv.pc[c] = "none"
    /\ \A d \in Conns : d < c => sv.pc[d] # "none"
    /\ sv' = [sv EXCEPT !.pc[c] = "read"]
    /\ ServerUnchanged

\* remove_player(&player_id) after the loop, when a player id was set
remove_player(registry, player_id) ==
    IF player_id = "none" THEN registry ELSE [registry EXCEPT ![player_id] = NoClient]

\* PacketHeader::from_bytes(&buffer[..5]).unwrap().convert().unwrap()
HeaderUnwrap(buffer) == IF buffer.kind = "undecodable" THEN "panicked" ELSE "decoded"

\* handle_client, one turn of the loop up to its next await: the read, the
\* header, and for a Connect forge_connection and add_player; the break
\* branches run remove_player and end the task
handle_client_read(c, buffer) ==
    /\ sv.pc[c] = "read"
    /\ IF buffer.kind = "eof"
       THEN sv' = [sv EXCEPT !.pc[c] = "done", !.buffer[c] = buffer,
                             !.player_state = remove_player(@, sv.player_id[c])]
       ELSE IF HeaderUnwrap(buffer) # "decoded"
       THEN sv' = [sv EXCEPT !.pc[c] = HeaderUnwrap(buffer), !.buffer[c] = buffer]
       ELSE IF buffer.kind = "connect" /\ buffer.player # "none"
       THEN sv' = [sv EXCEPT !.pc[c] = "write", !.buffer[c] = buffer,
                             !.player_id[c] = buffer.player,
                             !.player_state[buffer.player] = c,
                             !.response[c] = "PlayerConnected"]
       ELSE IF buffer.kind = "connect"
       THEN sv' = [sv EXCEPT !.pc[c] = "write", !.buffer[c] = buffer,
                             !.response[c] = "Err"]
       ELSE sv' = [sv EXCEPT !.pc[c] = "done", !.buffer[c] = buffer,
                             !.player_state = remove_player(@, sv.player_id[c])]
    /\ ServerUnchanged

\* c_stream.write_all(&e_response).await: on Err break, else read on
handle_client_write(c, ok) ==
    /\ sv.pc[c] = "write"
    /\ IF ok
       THEN sv' = [sv EXCEPT !.pc[c] = "read"]
       ELSE sv' = [sv EXCEPT !.pc[c] = "done",
                             !.player_state = remove_player(@, sv.player_id[c])]
    /\ ServerUnchanged

(* -------------------------- the specification -------------------------- *)

Init ==
    /\ players = [p \in PlayerIds |-> NoClient]
    /\ players_lock = Free
    /\ client = [c \in Conns |-> NoRecord]
    /\ guards = [c \in Conns |-> NoGuards]
    /\ replay = [c \in Conns |-> NoReplay]
    /\ pc = [t \in Tasks |-> IF t[1] = "h" THEN "temp" ELSE "none"]
    /\ fr = [t \in Tasks |-> NoFrame]
    /\ conn = [c \in Conns |-> NoConn]
    /\ snapshot = [c \in Conns |-> <<>>]
    /\ server_closed = FALSE
    /\ env = [faults |-> 0, updates |-> 0]
    /\ sv = NoServer

\* close_server stops the whole server: nothing runs after it
Serving == ~server_closed

Next ==
    \/ \E t \in Tasks, ok \in BOOLEAN : Serving /\ send_packet_write(t, ok)
    \/ \E t \in Tasks : Serving /\ disconnect(t)
    \/ \E c \in Conns, buffer \in Buffers : Serving /\ ClientRead(c, buffer)
    \/ \E c \in Conns : Serving /\ ClientLoop(c)
    \/ \E c \in Conns, payload \in RequestPayloads : Serving /\ handle_connect_request(c, payload)
    \/ \E c \in Conns, resp \in ProfileResponses : Serving /\ handle_connect_profile(c, resp)
    \/ \E c \in Conns, resp \in DeckResponses, sole \in BOOLEAN :
          Serving /\ handle_connect_deck(c, resp, sole)
    \/ \E c \in Conns : Serving /\ handle_connect_insert(c)
    \/ \E c \in Conns, ok \in BOOLEAN : Serving /\ handle_connect_fetch(c, ok)
    \/ \E c \in Conns, payload \in RequestPayloads : Serving /\ handle_reconnect_request(c, payload)
    \/ \E c \in Conns, resp \in ProfileResponses : Serving /\ handle_reconnect_profile(c, resp)
    \/ \E c \in Conns, sole \in BOOLEAN : Serving /\ handle_reconnect_lookup(c, sole)
    \/ \E c \in Conns : Serving /\ ClientReconnect(c)
    \/ \E c \in Conns : Serving /\ send_missed_packets_lock(c)
    \/ \E c \in Conns : Serving /\ send_missed_packets_pop(c)
    \/ \E cl \in Conns : Serving /\ EnqueueMissed(cl)

Spec == Init /\ [][Next]_vars

NextServer ==
    \/ \E c \in Conns : run(c)
    \/ \E c \in Conns, buffer \in ServerBuffers : handle_client_read(c, buffer)
    \/ \E c \in Conns, ok \in BOOLEAN : handle_client_write(c, ok)

SpecServer == Init /\ [][NextServer]_vars

\* the steps of the handler task of connection c once its first packet is
\* read: each awaits a service, a lock, a write or a timer
HandlerStep(c) ==
    /\ Serving
    /\ \/ \E resp \in ProfileResponses : handle_connect_profile(c, resp)
       \/ \E resp \in DeckResponses, sole \in BOOLEAN : handle_connect_deck(c, resp, sole)
       \/ handle_connect_insert(c)
       \/ \E ok \in BOOLEAN : handle_connect_fetch(c, ok)
       \/ \E resp \in ProfileResponses : handle_reconnect_profile(c, resp)
       \/ \E sole \in BOOLEAN : handle_reconnect_lookup(c, sole)
       \/ ClientReconnect(c)
       \/ send_missed_packets_lock(c)
       \/ send_missed_packets_pop(c)
       \/ \E ok \in BOOLEAN : send_packet_write(H(c), ok)
       \/ disconnect(H(c))
\* the steps of the read task of client c inside handle_incoming
ClientStep(c) ==
    /\ Serving
    /\ \/ \E ok \in BOOLEAN : send_packet_write(<<"k", c>>, ok)
       \/ disconnect(<<"k", c>>)
       \/ ClientLoop(c)

\* the tokio runtime polls every task that can go on, and every service call,
\* write and timer returns
SpecFair ==
    /\ Spec
    /\ \A c \in Conns : WF_vars(HandlerStep(c)) /\ WF_vars(ClientStep(c))

(* ------------------------------- claims -------------------------------- *)
K(c) == <<"k", c>>
\* task t takes a step of its send_packet
SendStep(t) == pc[t] = "send_packet" /\ fr'[t] # fr[t]

\* C1: send_packet writes once per turn of its loop; it returns Ok at the
\* first write that succeeds, with no further write, and it returns
\* PackageWriteError only from its third write, all three having failed:
\* never after 2 writes and never with a 4th.
C1_ThreeWrites ==
    [][\A t \in Tasks :
          SendStep(t) =>
              /\ fr[t].writes < RetryLimit
              /\ fr'[t].res = "Ok" => pc'[t] # "send_packet"
              /\ fr'[t].res = "Err" =>
                     fr[t].writes + 1 = RetryLimit /\ pc'[t] # "send_packet"
              /\ fr'[t].res = "none" =>
                     /\ fr'[t].writes = fr[t].writes + 1
                     /\ fr'[t].writes < RetryLimit
                     /\ pc'[t] = "send_packet"]_vars
\* a send_packet has returned the error
C1_Witness == \E t \in Tasks : fr[t].res = "Err" /\ pc[t] # "send_packet"

\* the buffers that frame a packet of one of these headers whose checksum
\* matches its payload
ValidBuffers(headers) ==
    {b \in Buffers : b.framed /\ b.header_type \in headers
                              /\ ChecksumCheck(b.checksum, b.payload)}
\* the buffers that frame a packet whose checksum does not match its payload
CorruptBuffers == {b \in Buffers : b.framed /\ ~ChecksumCheck(b.checksum, b.payload)}
\* the read task of client c reads a buffer and hands it to handle_incoming
Reads(c) == pc[K(c)] = "read" /\ pc'[K(c)] # "read"
\* the read task of client c comes back from handle_incoming having sent a
\* packet of this header type
Returns(c, header_type) ==
    /\ pc[K(c)] # "ret"
    /\ pc'[K(c)] = "ret"
    /\ fr'[K(c)].pkt.header_type = header_type

\* C2: a packet whose checksum does not match its payload is answered with
\* InvalidChecksum, and when handle_incoming returns the client is marked
\* disconnected, whether the send succeeded or failed.
C2_ChecksumDisconnects ==
    [][\A c \in Conns :
          /\ Reads(c) =>
             \A b \in CorruptBuffers :
                 ClientRead(c, b) =>
                     /\ fr'[K(c)].pkt.header_type = "InvalidChecksum"
                     /\ pc'[K(c)] = "send_packet"
          /\ Returns(c, "InvalidChecksum") => ~client'[c].connected]_vars

\* C3: when a reconnect has succeeded, the socket it brought has received
\* exactly the packets that were in the client's queue, in their order, and
\* no packet of another sender before the last of them.
C3_ReplayExact ==
    \A c \in Conns :
        conn[c].kind = "reconnect" /\ conn[c].res = "Ok" =>
            replay[c].got = snapshot[c] /\ ~replay[c].foreign

\* C4: of two handle_connect calls that have both authenticated the same
\* player id, the one that finds the other's client placed while it waited
\* returns InternalError and leaves the registry as it is.
C4_OneWinner ==
    [][\A c \in Conns :
          conn[c].lost /\ pc'[H(c)] # pc[H(c)] =>
              /\ pc'[H(c)] = "done"
              /\ conn'[c].res = "InternalError"
              /\ players' = players]_vars

\* the profile service has answered the request of c with the profile of a
\* player other than the one the request names
Mismatch(c, resp) ==
    /\ resp.transport = "ok"
    /\ resp.status = 200
    /\ resp.body \in PlayerIds \ {conn[c].player_id}

\* C5: a reconnect whose profile id differs from the player id of the request
\* returns PlayerDoesNotMatch there and then, and the step leaves the registry
\* and every client in it (stream halves, connected flag, queue) as they were.
C5_MismatchRejected ==
    [][\A c \in Conns :
          pc[H(c)] = "reconnect_profile" /\ Mismatch(c, conn'[c].profile) =>
              /\ conn'[c].res = "PlayerDoesNotMatch"
              /\ pc'[H(c)] = "done"
              /\ players' = players
              /\ client' = client]_vars
\* a reconnect naming a registered player was refused for its profile
C5_Witness ==
    \E c \in Conns :
        /\ conn[c].kind = "reconnect"
        /\ Mismatch(c, conn[c].profile)
        /\ conn[c].res = "PlayerDoesNotMatch"
        /\ players[conn[c].player_id] # NoClient

\* C6: a connect whose profile request is answered 401 has returned
\* UnauthorizedPlayerError; no client was made of its connection, the registry
\* does not hold it, and the deck service was not called.
C6_UnauthorizedNotPromoted ==
    \A c \in Conns :
        conn[c].kind = "connect" /\ conn[c].profile.status = 401 =>
            /\ conn[c].res = "UnauthorizedPlayerError"
            /\ pc[H(c)] = "done"
            /\ ~client[c].exists
            /\ \A p \in PlayerIds : players[p] # c
            /\ conn[c].deck = NoResponse
            /\ pc[K(c)] = "none"
\* a connect was answered 401 by a response that arrived
C6_Witness ==
    \E c \in Conns :
        /\ conn[c].kind = "connect"
        /\ conn[c].profile.status = 401
        /\ conn[c].profile.transport = "ok"
        /\ conn[c].res = "UnauthorizedPlayerError"

\* the PlayCard buffers with a matching checksum whose payload is no
\* play-card request
BadPlayCards ==
    {b \in ValidBuffers({"PlayCard"}) : ~PlayCardRequestParses(b.payload)}

C8_DisconnectAlways ==
    [][\A c \in Conns :
          /\ Reads(c) =>
             \A b \in ValidBuffers({"Disconnect"}) :
                 ClientRead(c, b) =>
                     /\ fr'[K(c)].pkt.header_type = "Disconnect"
                     /\ pc'[K(c)] = "send_packet"
          /\ Returns(c, "Disconnect") => ~client'[c].connected]_vars
\* the acknowledgement was written and the client is marked disconnected
C8_Witness ==
    \E c \in Conns :
        /\ pc[K(c)] = "ret"
        /\ fr[K(c)].pkt.header_type = "Disconnect"
        /\ fr[K(c)].res = "Ok"
        /\ ~client[c].connected

\* the headers handle_packet has no arm for
OtherHeaders == InHeaders \ {"Disconnect", "PlayCard"}

\* C9: a packet with a matching checksum whose header is neither Disconnect
\* nor PlayCard is answered with InvalidHeader; a send that succeeds returns
\* with the connected flag as it was, and a send that fails after all its
\* retries, and only that, marks the client disconnected.
C9_InvalidHeaderOrDisconnect ==
    [][\A c \in Conns :
          /\ Reads(c) =>
             \A b \in ValidBuffers(OtherHeaders) :
                 ClientRead(c, b) =>
                     /\ fr'[K(c)].pkt.header_type = "InvalidHeader"
                     /\ pc'[K(c)] = "send_packet"
          /\ fr[K(c)].pkt.header_type = "InvalidHeader" /\ SendStep(K(c)) =>
                 /\ client'[c].connected = client[c].connected
                 /\ fr'[K(c)].res = "Ok" => pc'[K(c)] = "ret"
                 /\ fr'[K(c)].res = "Err" => pc'[K(c)] = "disconnect"
          /\ Returns(c, "InvalidHeader") /\ fr[K(c)].res = "Err" =>
                 ~client'[c].connected]_vars
\* the answer could not be written and the client is marked disconnected
C9_Witness ==
    \E c \in Conns :
        /\ pc[K(c)] = "ret"
        /\ fr[K(c)].pkt.header_type = "InvalidHeader"
        /\ fr[K(c)].res = "Err"
        /\ ~client[c].connected

\* C10: bytes that do not decode leave the connection task running: after
\* them it reads the next packet, it has written nothing and the registry is
\* as it was.
C10_UndecodableDropped ==
    \A c \in Conns :
        sv.buffer[c].kind = "undecodable" =>
            sv.pc[c] = "read" /\ sv.response[c] = "none"

\* C11: no disconnect of a registered player takes its entry out of the
\* registry: an entry, once there, is there after every step, whether the
\* connection ended by a read of 0 bytes, a read error or a failed write.
C11_EntryRetained ==
    [][\A p \in PlayerIds :
          sv.player_state[p] # NoClient => sv'.player_state[p] # NoClient]_vars

\* C12: a reconnect that has authenticated a player id the registry holds no
\* entry for returns PlayerNotConnected, and the step leaves the registry and
\* every client as they were: no entry is made.
C12_AbsentPlayerRejected ==
    [][\A c \in Conns :
          /\ pc[H(c)] = "reconnect_players"
          /\ pc'[H(c)] # "reconnect_players"
          /\ players[conn[c].profile.body] = NoClient
          => /\ conn'[c].res = "PlayerNotConnected"
             /\ pc'[H(c)] = "done"
             /\ players' = players
             /\ client' = client]_vars
\* a reconnect was refused for a player the registry does not hold, while it
\* holds another
C12_Witness ==
    \E c \in Conns :
        /\ conn[c].kind = "reconnect"
        /\ conn[c].res = "PlayerNotConnected"
        /\ players[conn[c].player_id] = NoClient
        /\ \E p \in PlayerIds : players[p] # NoClient

\* C13: whenever a send_packet has returned the write error, its caller has
\* marked the client disconnected by the time it returns, on every path:
\* the answers of the read task and the replay of the missed packets.
C13_WriteErrorDisconnects ==
    [][\A t \in Tasks :
          pc[t] # Returned(t) /\ pc'[t] = Returned(t) /\ fr'[t].res = "Err" =>
              ~client'[fr'[t].client].connected]_vars

\* C14: a packet taken from a client's missed-packet queue whose write fails
\* after all retries is not lost: when that send_packet returns the error,
\* the packet is at the head of the queue again, ahead of the ones behind it.
C14_QueueKeepsUnsent ==
    [][\A c \in Conns :
          LET cl == conn[c].target IN
          /\ pc[H(c)] = "send_packet"
          /\ fr'[H(c)].res = "Err"
          => /\ client'[cl].missed_packets # <<>>
             /\ Head(client'[cl].missed_packets) = fr[H(c)].pkt]_vars

\* a failure confined to connection c: its read task panics, a send on its
\* behalf returns the write error, or its handler returns an error
FailsAlone(c) ==
    \/ pc[K(c)] # "panicked" /\ pc'[K(c)] = "panicked"
    \/ \E t \in {H(c), K(c)} : fr[t].res # "Err" /\ fr'[t].res = "Err"
    \/ pc[H(c)] # "done" /\ pc'[H(c)] = "done" /\ conn'[c].res # "Ok"

\* C15: the server is closed only by the step of a handle_connect whose
\* request for the card details failed; a failure confined to one connection
\* (a panic of its read task, an exhausted write, a handler error) neither
\* closes the server nor moves a task of another connection.
C15_ClosedOnlyByProvisioning ==
    [][/\ ~server_closed /\ server_closed' =>
              \E c \in Conns : handle_connect_fetch(c, FALSE)
       /\ \A c \in Conns :
              FailsAlone(c) =>
                  /\ ~server_closed'
                  /\ \A d \in Conns \ {c} :
                         pc'[H(d)] = pc[H(d)] /\ pc'[K(d)] = pc[K(d)]]_vars
\* the server was closed after the read task of a connection had panicked
C15_Witness ==
    /\ server_closed
    /\ \E c \in Conns : pc[K(c)] = "panicked"

\* C16: a Connect that fails registers nothing and is answered with an error
\* response, and once that response has been attempted the connection task
\* ends: it reads no further packet from the socket.
C16_FailedConnectCloses ==
    [][\A c \in Conns :
          /\ /\ sv.pc[c] = "read"
             /\ sv'.pc[c] # "read"
             /\ sv'.buffer[c].kind = "connect"
             /\ sv'.buffer[c].player = "none"
             => /\ sv'.player_state = sv.player_state
                /\ sv'.response[c] = "Err"
                /\ sv'.pc[c] = "write"
          /\ /\ sv.pc[c] = "write"
             /\ sv.response[c] = "Err"
             /\ sv'.pc[c] # "write"
             => sv'.pc[c] = "done"]_vars

\* what handle_packet and the handlers it routes to can answer
Dispatched == {handle_disconnect, handle_play_card, invalid_play_card, invalid_header}

\* C17: handle_packet runs only on packets whose checksum matched: whenever a
\* read ends in the Disconnect, PlayCard or invalid-header handling, the
\* buffer read framed a packet whose checksum is that of its payload.
C17_DispatchOnlyChecked ==
    [][\A c \in Conns :
          /\ Reads(c)
          /\ Answer(fr'[K(c)].path, fr'[K(c)].pkt.header_type) \in Dispatched
          => \A b \in Buffers :
                 ClientRead(c, b) => b.framed /\ ChecksumCheck(b.checksum, b.payload)]_vars
\* a PlayCard packet was dispatched to handle_play_card
C17_Witness == \E c \in Conns : pc[K(c)] = "panicked" /\ fr[K(c)].path = "panic"

\* C18: a Connect or Reconnect packet read from an authenticated client is
\* answered with InvalidHeader; neither the read nor the send of that answer
\* calls a service, starts a handler, changes the registry or replaces the
\* client's write half.
C18_PromotedOnce ==
    [][\A c \in Conns :
          /\ Reads(c) =>
             \A b \in ValidBuffers({"Connect", "Reconnect"}) :
                 ClientRead(c, b) =>
                     /\ fr'[K(c)].pkt.header_type = "InvalidHeader"
                     /\ pc'[K(c)] = "send_packet"
                     /\ players' = players /\ client' = client /\ conn' = conn
                     /\ pc'[H(c)] = pc[H(c)]
          /\ fr[K(c)].pkt.header_type = "InvalidHeader" /\ SendStep(K(c)) =>
                 /\ players' = players /\ conn' = conn
                 /\ client'[c].write_stream = client[c].write_stream
                 /\ pc'[H(c)] = pc[H(c)]]_vars
\* an InvalidHeader answer was written to a client that is registered and
\* connected as before
C18_Witness ==
    \E c \in Conns :
        /\ pc[K(c)] = "ret"
        /\ fr[K(c)].pkt.header_type = "InvalidHeader"
        /\ fr[K(c)].res = "Ok"
        /\ client[c].connected /\ client[c].write_stream = c
        /\ players[client[c].player] = c
        /\ pc[H(c)] = "done"

\* C19: a handle_connect that has authenticated its request while another
\* holder still has the temporary handle returns InternalError: no client is
\* made, nothing is placed in the registry and no read task is spawned.
C19_SoleOwnerPromotes ==
    [][\A c \in Conns :
          pc[H(c)] = "connect_deck" /\ pc'[H(c)] # "connect_deck" =>
              \A resp \in DeckResponses :
                  get_player_deck(resp) = "Ok" /\ handle_connect_deck(c, resp, FALSE) =>
                      /\ conn'[c].res = "InternalError"
                      /\ pc'[H(c)] = "done"
                      /\ client' = client
                      /\ players' = players
                      /\ pc'[K(c)] = "none"]_vars
\* an authenticated connect has returned InternalError with no client made
C19_Witness ==
    \E c \in Conns :
        /\ conn[c].kind = "connect"
        /\ conn[c].res = "InternalError"
        /\ get_player_deck(conn[c].deck) = "Ok"
        /\ ~client[c].exists
        /\ \A p \in PlayerIds : players[p] # c

\* C20: a reconnect that finds the player's entry but cannot take the
\* temporary handle, another task holding it, returns InternalError and the
\* player's entry is deleted from the registry.
C20_UnwrapFailureRemoves ==
    [][\A c \in Conns :
          pc[H(c)] = "reconnect_players" /\ conn'[c].res = "InternalError" =>
              players'[conn[c].profile.body] = NoClient]_vars

\* new_connection of connection c has returned a Player to handle_connect
PlayerReturned(c) ==
    \/ pc[H(c)] \in {"connect_insert", "connect_fetch"}
    \/ conn[c].res \in {"InternalError", "Ok"}

\* C21: new_connection goes request, profile service, deck service and stops
\* at the first failure: a payload that is no request is InvalidPlayerPayload
\* with no service called; the deck service is called only after a profile
\* call that succeeded; a failed profile call or a failed deck call is the
\* error returned; a Player is returned only when both calls succeeded.
C21_FixedOrder ==
    \A c \in Conns :
        conn[c].kind = "connect" =>
            /\ conn[c].player_id \notin PlayerIds =>
                   /\ conn[c].res = "InvalidPlayerPayload"
                   /\ conn[c].profile = NoResponse /\ conn[c].deck = NoResponse
                   /\ pc[H(c)] = "done"
            /\ conn[c].deck # NoResponse =>
                   /\ conn[c].profile # NoResponse
                   /\ get_player_profile(conn[c].profile) = "Ok"
            /\ conn[c].profile # NoResponse
                  /\ get_player_profile(conn[c].profile) # "Ok" =>
                   /\ conn[c].res = get_player_profile(conn[c].profile)
                   /\ conn[c].deck = NoResponse
                   /\ pc[H(c)] = "done"
            /\ conn[c].deck # NoResponse /\ get_player_deck(conn[c].deck) # "Ok" =>
                   /\ conn[c].res = get_player_deck(conn[c].deck)
                   /\ pc[H(c)] = "done"
            /\ PlayerReturned(c) =>
                   /\ get_player_profile(conn[c].profile) = "Ok"
                   /\ get_player_deck(conn[c].deck) = "Ok"
\* a connect whose profile call succeeded has returned the error of its deck
\* call
C21_Witness ==
    \E c \in Conns :
        /\ conn[c].kind = "connect"
        /\ get_player_profile(conn[c].profile) = "Ok"
        /\ conn[c].deck # NoResponse
        /\ get_player_deck(conn[c].deck) = "DeckNotFound"
        /\ conn[c].res = "DeckNotFound"
        /\ ~PlayerReturned(c)

\* the statuses that mean success
Success == 200..299

\* C22: whatever the profile service answered a handler, a 401 is the
\* unauthorized error, every other status outside 2xx is the unexpected
\* error, and a profile comes only of a 2xx status: a status outside 2xx is
\* neither a profile nor an invalid-payload error.
C22_StatusDecides ==
    \A c \in Conns :
        LET resp == conn[c].profile
            res == get_player_profile(resp)
        IN  resp.status # 0 =>
                /\ resp.status = 401 => res = "UnauthorizedPlayerError"
                /\ resp.status \notin Success /\ resp.status # 401 =>
                       res = "UnexpectedPlayerError"
                /\ res = "Ok" => resp.status \in Success

\* the tasks that hold, across an await, a lock task t is asking for
Blockers(t) ==
    LET held ==
            CASE pc[t] = "connect_insert" -> {players_lock.w} \cup players_lock.r
              [] pc[t] = "reconnect_players" -> {players_lock.w}
              [] pc[t] = "reconnect" -> {guards[conn[t[2]].target].write_stream}
              [] pc[t] = "smp_lock" -> {guards[conn[t[2]].target].missed_packets}
              [] pc[t] = "send_packet" -> {guards[fr[t].client].write_stream}
              [] OTHER -> {}
    IN  held \ {NoTask, t}
\* the tasks that t waits for, directly or through others
RECURSIVE WaitsFor(_, _)
WaitsFor(waited, n) ==
    IF n = 0 THEN waited
    ELSE WaitsFor(waited \cup UNION {Blockers(u) : u \in waited}, n - 1)
NoCyclicWait ==
    \A t \in Tasks : t \notin WaitsFor(Blockers(t), Cardinality(Tasks))

\* the handler of connection c is inside a call that holds this kind of guard
HoldsRegistryWrite(c) == pc[H(c)] = "connect_fetch"
HoldsRegistryRead(c) ==
    pc[H(c)] \in {"reconnect", "smp_lock", "smp_loop", "send_packet", "disconnect"}
HoldsQueue(c) == pc[H(c)] \in {"smp_loop", "send_packet", "disconnect"}
\* every guard held across an await belongs to a call that is still running
HeldByRunning ==
    /\ players_lock.w # NoTask =>
           players_lock.w[1] = "h" /\ HoldsRegistryWrite(players_lock.w[2])
    /\ \A t \in players_lock.r : t[1] = "h" /\ HoldsRegistryRead(t[2])
    /\ \A cl \in Conns :
           LET t == guards[cl].missed_packets IN
           t # NoTask => t[1] = "h" /\ HoldsQueue(t[2]) /\ conn[t[2]].target = cl

\* task t is inside send_packet or disconnect
Sending(t) == pc[t] \in {"send_packet", "disconnect"}
\* every handle_connect and handle_reconnect that was called has returned
HandlersReturned == \A c \in Conns : conn[c].kind = "none" \/ pc[H(c)] = "done"

C24_ReplacesOnlyDisconnected ==
    [][\A cl \in Conns :
          /\ client[cl].exists
          /\ client'[cl].write_stream # client[cl].write_stream
          => ~client[cl].connected]_vars

\* C25: every entry of the registry is keyed by the id of the profile that
\* the token of its Connect resolved to: the player id a client is registered
\* under is the id the profile service returned for it.
C25_KeyIsProfileId ==
    \A p \in PlayerIds :
        players[p] # NoClient => conn[players[p]].profile.body = p

=============================================================================
